---------------------------- MODULE Spec2Model ----------------------------
(***************************************************************************)
(* A model of deno-cgi: executeCgi (environment builder, process spawn),   *)
(* the batch responder getCgiResponse, the streaming responder             *)
(* getStreamingCgiResponse with getPrefixedStream, the boundary scanner    *)
(* findHeaderBodySeparator and the header block parser parseCgiHead.       *)
(*                                                                         *)
(* Bytes and characters are one-character strings ("H", "\n", ...).  The   *)
(* byte written "xFF" stands for a byte that is no valid UTF-8 and the     *)
(* character written "uFFFD" for U+FFFD, which TextDecoder puts in its     *)
(* place.  A byte string, a text, a header name and an environment         *)
(* variable name are sequences of them.                                    *)
(***************************************************************************)
EXTENDS Integers, Sequences, FiniteSets, TLC

VARIABLES
    request,      \* the Request given to executeCgi: method, url, headers
    requestBody,  \* request.body: absent, or a stream and what is yet to come
    stdin,        \* child.stdin: the state of the stream and of the pipe
    pump,         \* the detached task that pipes request.body to child.stdin
    options,      \* the CgiExecutionOptions given to executeCgi
    env,          \* const env of executeCgi: the computed CGI variables
    child,        \* the child process: launch state, env and stderr mode given
    pc,           \* where executeCgi is: start, output, head, done
    stdout,       \* the bytes in the child's stdout pipe, written and not read
    stdoutOpen,   \* the child has not closed its stdout
    written,      \* every byte the child wrote to stdout, in order
    stderr,       \* the bytes the child wrote to stderr
    exitCode,     \* the child's exit code, -1 while it runs
    headBuf,      \* headBuf of getStreamingCgiResponse
    sepIndex,     \* sepIndex of getStreamingCgiResponse
    source,       \* child.stdout as a ReadableStream: its lock, cancelled
    result,       \* what executeCgi returned, or that it threw
    body,         \* the ReadableStream getPrefixedStream made
    delivered,    \* the bytes the response body gave its consumer, in order
    piecesLeft    \* how many more writes to stdout the child may make

vars == <<request, requestBody, options, env, child, stdin, pump, pc, stdout,
          stdoutOpen, written, stderr, exitCode, headBuf, sepIndex, source,
          result, body, delivered, piecesLeft>>

-----------------------------------------------------------------------------
(* Text *)

Digits == {"0", "1", "2", "3", "4", "5", "6", "7", "8", "9"}

DigitValue(c) ==
    CASE c = "0" -> 0 [] c = "1" -> 1 [] c = "2" -> 2 [] c = "3" -> 3
      [] c = "4" -> 4 [] c = "5" -> 5 [] c = "6" -> 6 [] c = "7" -> 7
      [] c = "8" -> 8 [] c = "9" -> 9

\* number.toString() of a non-negative integer
RECURSIVE numberToString(_)
numberToString(n) ==
    LET d == CHOOSE c \in Digits : DigitValue(c) = n % 10
    IN  IF n < 10 THEN <<d>> ELSE numberToString(n \div 10) \o <<d>>

\* what \s of a regular expression and String.prototype.trim take for blank
WhiteSpace == {" ", "\t", "\n", "\r", "\f"}

LowerCaseLetters ==
    <<"a", "b", "c", "d", "e", "f", "g", "h", "i", "j", "k", "l", "m",
      "n", "o", "p", "q", "r", "s", "t", "u", "v", "w", "x", "y", "z">>

UpperCaseLetters ==
    <<"A", "B", "C", "D", "E", "F", "G", "H", "I", "J", "K", "L", "M",
      "N", "O", "P", "Q", "R", "S", "T", "U", "V", "W", "X", "Y", "Z">>

ToUpperChar(c) ==
    IF \E i \in 1..26 : LowerCaseLetters[i] = c
    THEN UpperCaseLetters[CHOOSE i \in 1..26 : LowerCaseLetters[i] = c]
    ELSE c

ToLowerChar(c) ==
    IF \E i \in 1..26 : UpperCaseLetters[i] = c
    THEN LowerCaseLetters[CHOOSE i \in 1..26 : UpperCaseLetters[i] = c]
    ELSE c

\* String.prototype.toUpperCase
toUpperCase(s) == [i \in 1..Len(s) |-> ToUpperChar(s[i])]

\* the lower-casing behind every case-insensitive comparison (/.../i, Headers)
toLowerCase(s) == [i \in 1..Len(s) |-> ToLowerChar(s[i])]

\* String.prototype.indexOf of one character, 0-based, -1 when absent
indexOf(s, c) ==
    IF \E i \in 1..Len(s) : s[i] = c
    THEN (CHOOSE i \in 1..Len(s) : s[i] = c /\ \A j \in 1..(i - 1) : s[j] # c) - 1
    ELSE -1

\* s.slice(from, to) with 0-based from (inclusive) and to (exclusive), both
\* at least 0; an end past the length is the length
slice(s, from, to) == SubSeq(s, from + 1, IF to > Len(s) THEN Len(s) ELSE to)

\* String.prototype.startsWith
startsWith(s, prefix) ==
    Len(prefix) <= Len(s) /\ \A i \in 1..Len(prefix) : s[i] = prefix[i]

\* String.prototype.trim
trim(s) ==
    LET keep == {i \in 1..Len(s) : s[i] \notin WhiteSpace}
    IN  IF keep = {} THEN <<>>
        ELSE LET lo == CHOOSE i \in keep : \A j \in keep : i <= j
                 hi == CHOOSE i \in keep : \A j \in keep : j <= i
             IN  SubSeq(s, lo, hi)

\* String.prototype.split on one character
RECURSIVE split(_, _)
split(s, c) ==
    LET i == indexOf(s, c)
    IN  IF i < 0 THEN <<s>>
        ELSE <<slice(s, 0, i)>> \o split(slice(s, i + 1, Len(s)), c)

\* s.replace(/\r\n/g, "\n")
RECURSIVE normalizeNewlines(_)
normalizeNewlines(s) ==
    IF Len(s) = 0 THEN <<>>
    ELSE IF Len(s) >= 2 /\ s[1] = "\r" /\ s[2] = "\n"
         THEN <<"\n">> \o normalizeNewlines(SubSeq(s, 3, Len(s)))
         ELSE <<s[1]>> \o normalizeNewlines(Tail(s))

\* new TextDecoder().decode: UTF-8, an invalid byte becomes U+FFFD
decode(bytes) ==
    [i \in 1..Len(bytes) |-> IF bytes[i] = "xFF" THEN "uFFFD" ELSE bytes[i]]

\* new TextEncoder().encode: UTF-8, U+FFFD is the three bytes EF BF BD
RECURSIVE encode(_)
encode(text) ==
    IF Len(text) = 0 THEN <<>>
    ELSE (IF text[1] = "uFFFD" THEN <<"xEF", "xBF", "xBD">> ELSE <<text[1]>>)
         \o encode(Tail(text))

\* the concatenation of a sequence of byte strings
RECURSIVE Concat(_)
Concat(chunks) ==
    IF Len(chunks) = 0 THEN <<>> ELSE Head(chunks) \o Concat(Tail(chunks))

-----------------------------------------------------------------------------
(* utils: startsWithU8 *)

startsWithU8(haystack, needle) ==
    IF Len(needle) > Len(haystack) THEN FALSE
    ELSE \A i \in 1..Len(needle) : haystack[i] = needle[i]

-----------------------------------------------------------------------------
(* The boundary scanner *)

httpProlog == <<"H", "T", "T", "P", "/">>

\* the least element of a non-empty set of integers
Min(S) == CHOOSE x \in S : \A y \in S : x <= y

\* findHeaderBodySeparator with the LF LF loop before the CR LF CR LF loop
findHeaderBodySeparatorLfFirst(bytes) ==
    LET crlf == {i \in 0..(Len(bytes) - 4) :
                    /\ bytes[i + 1] = "\r" /\ bytes[i + 2] = "\n"
                    /\ bytes[i + 3] = "\r" /\ bytes[i + 4] = "\n"}
        lf   == {i \in 0..(Len(bytes) - 2) :
                    bytes[i + 1] = "\n" /\ bytes[i + 2] = "\n"}
    IN  IF Len(bytes) < Len(httpProlog) THEN -1
        ELSE IF ~startsWithU8(bytes, httpProlog) THEN -2
        ELSE IF lf # {} THEN Min(lf) + 2
        ELSE IF crlf # {} THEN Min(crlf) + 4
        ELSE -3

\* the 0-based index where the body starts, or -1 (not enough data),
\* -2 (bad prolog), -3 (no headers)
findHeaderBodySeparator(bytes) ==
    LET crlf == {i \in 0..(Len(bytes) - 4) :
                    /\ bytes[i + 1] = "\r" /\ bytes[i + 2] = "\n"
                    /\ bytes[i + 3] = "\r" /\ bytes[i + 4] = "\n"}
        lf   == {i \in 0..(Len(bytes) - 2) :
                    bytes[i + 1] = "\n" /\ bytes[i + 2] = "\n"}
    IN  IF Len(bytes) < Len(httpProlog) THEN -1
        ELSE IF ~startsWithU8(bytes, httpProlog) THEN -2
        ELSE IF crlf # {} THEN Min(crlf) + 4
        ELSE IF lf # {} THEN Min(lf) + 2
        ELSE -3

-----------------------------------------------------------------------------
(* The header block parser *)

\* how many characters of s from the 0-based index `from` on are in Class
RECURSIVE RunLength(_, _, _)
RunLength(s, from, Class) ==
    IF from < Len(s) /\ s[from + 1] \in Class
    THEN 1 + RunLength(s, from + 1, Class)
    ELSE 0

\* parseInt(digits, 10) of a string of digits
RECURSIVE parseInt(_)
parseInt(digits) ==
    IF Len(digits) = 0 THEN 0
    ELSE 10 * parseInt(SubSeq(digits, 1, Len(digits) - 1))
         + DigitValue(digits[Len(digits)])

\* the group of s.slice(from).match(/^(\d{3})/): the three digits, or the
\* empty string for no match
matchThreeDigits(s, from) ==
    IF RunLength(s, from, Digits) >= 3 THEN slice(s, from, from + 3) ELSE <<>>

\* line.match(/^HTTP\/\d+\.\d+\s+(\d{3})/i) of a line that starts with
\* "HTTP/": the three digits, or the empty string for no match
matchStatusLine(line) ==
    LET major  == RunLength(line, 5, Digits)
        dot    == 5 + major
        minor  == RunLength(line, dot + 1, Digits)
        blank  == RunLength(line, dot + 1 + minor, WhiteSpace)
    IN  IF /\ major >= 1
           /\ dot < Len(line) /\ line[dot + 1] = "."
           /\ minor >= 1
           /\ blank >= 1
        THEN matchThreeDigits(line, dot + 1 + minor + blank)
        ELSE <<>>

\* text.split("\n").filter((l) => l.length > 0)
nonEmptyLines(text) == SelectSeq(split(text, "\n"), LAMBDA l : Len(l) > 0)

\* Map.has / Map.set of the ordered Map<string, string>, a sequence of
\* <<key, value>> in insertion order
mapHas(map, key) == \E i \in 1..Len(map) : map[i][1] = key

mapGet(map, key) == map[CHOOSE i \in 1..Len(map) : map[i][1] = key][2]

mapSet(map, key, value) ==
    IF mapHas(map, key)
    THEN [i \in 1..Len(map) |->
            IF map[i][1] = key THEN <<key, value>> ELSE map[i]]
    ELSE Append(map, <<key, value>>)

statusName == <<"s", "t", "a", "t", "u", "s">>

\* parseCgiHeadLine with the `continue` of the Status branch forgotten: the
\* line sets the status and is a header as well
parseCgiHeadLineStatusInjected(line, acc) ==
    LET sep   == indexOf(line, ":")
        name  == trim(slice(line, 0, sep))
        value == trim(slice(line, sep + 1, Len(line)))
        m     == matchThreeDigits(value, 0)
        set   == IF toLowerCase(name) = statusName /\ m # <<>>
                 THEN [acc EXCEPT !.status = parseInt(m)] ELSE acc
    IN  IF sep = -1 THEN acc
        ELSE IF mapHas(set.headers, name)
        THEN [set EXCEPT !.headers =
                mapSet(set.headers, name,
                       mapGet(set.headers, name) \o <<",", " ">> \o value)]
        ELSE [set EXCEPT !.headers = mapSet(set.headers, name, value)]

\* one turn of the loop over the lines of parseCgiHead
parseCgiHeadLine(line, acc) ==
    LET sep   == indexOf(line, ":")
        name  == trim(slice(line, 0, sep))
        value == trim(slice(line, sep + 1, Len(line)))
        m     == matchThreeDigits(value, 0)
    IN  IF sep = -1 THEN acc
        ELSE IF toLowerCase(name) = statusName
        THEN IF m # <<>> THEN [acc EXCEPT !.status = parseInt(m)] ELSE acc
        ELSE IF mapHas(acc.headers, name)
        THEN [acc EXCEPT !.headers =
                mapSet(acc.headers, name,
                       mapGet(acc.headers, name) \o <<",", " ">> \o value)]
        ELSE [acc EXCEPT !.headers = mapSet(acc.headers, name, value)]

RECURSIVE parseCgiHeadLines(_, _, _)
parseCgiHeadLines(lines, i, acc) ==
    IF i >= Len(lines) THEN acc
    ELSE parseCgiHeadLines(lines, i + 1, parseCgiHeadLine(lines[i + 1], acc))

\* parseCgiHead: [headers, status]
parseCgiHead(headBytes) ==
    LET text  == normalizeNewlines(decode(headBytes))
        lines == nonEmptyLines(text)
        first == Len(lines) > 0 /\ startsWith(lines[1], httpProlog)
        m     == IF first THEN matchStatusLine(lines[1]) ELSE <<>>
        status  == IF m # <<>> THEN parseInt(m) ELSE 200
        startAt == IF first THEN 1 ELSE 0
    IN  parseCgiHeadLines(lines, startAt, [headers |-> <<>>, status |-> status])

-----------------------------------------------------------------------------
(* The platform's Headers and Response, as far as the responders use them *)

\* the characters of an HTTP token, of which a header name is made (the
\* backquote, a token character too, cannot be written in a string here)
TokenChars ==
    {LowerCaseLetters[i] : i \in 1..26} \cup {UpperCaseLetters[i] : i \in 1..26}
    \cup Digits
    \cup {"!", "#", "$", "%", "&", "'", "*", "+", "-", ".", "^", "_", "|",
          "~"}

\* the characters a header value must not hold: NUL, CR, LF and, the value
\* being a ByteString, any character above U+00FF
ForbiddenValueChars == {"x00", "\r", "\n", "uFFFD"}

HttpWhiteSpace == {"\t", "\n", "\r", " "}

\* a header value with its leading and trailing HTTP whitespace removed
normalizeValue(v) ==
    LET keep == {i \in 1..Len(v) : v[i] \notin HttpWhiteSpace}
    IN  IF keep = {} THEN <<>>
        ELSE SubSeq(v, Min(keep), CHOOSE i \in keep : \A j \in keep : j <= i)

validHeaderName(name) ==
    Len(name) > 0 /\ \A i \in 1..Len(name) : name[i] \in TokenChars

validHeaderValue(value) ==
    \A i \in 1..Len(value) : value[i] \notin ForbiddenValueChars

\* new Headers(): the header list, names in lower case as has, get and the
\* iteration give them, and whether a call on it threw a TypeError
newHeaders == [list |-> <<>>, threw |-> FALSE]

headersHas(h, name) == mapHas(h.list, toLowerCase(name))

headersGet(h, name) == mapGet(h.list, toLowerCase(name))

\* Headers.prototype.set
headersSet(h, name, value) ==
    IF h.threw THEN h
    ELSE IF ~validHeaderName(name) \/ ~validHeaderValue(normalizeValue(value))
    THEN [h EXCEPT !.threw = TRUE]
    ELSE [h EXCEPT !.list = mapSet(h.list, toLowerCase(name), normalizeValue(value))]

\* the statuses whose response has no body
NullBodyStatus == {101, 103, 204, 205, 304}

\* new Response(body, {status, headers}) with a body that is not null:
\* a RangeError for a status outside [200, 599] other than 101, a TypeError
\* for a null body status
newResponse(responseBody, status, headers) ==
    IF headers.threw THEN [kind |-> "throw", error |-> "TypeError"]
    ELSE IF (status < 200 \/ status > 599) /\ status # 101
    THEN [kind |-> "throw", error |-> "RangeError"]
    ELSE IF status \in NullBodyStatus
    THEN [kind |-> "throw", error |-> "TypeError"]
    ELSE [kind |-> "response", status |-> status, headers |-> headers.list,
          body |-> responseBody]

-----------------------------------------------------------------------------
(* setCgiHeaders *)

ContentType == <<"C", "o", "n", "t", "e", "n", "t", "-", "T", "y", "p", "e">>
ContentLength == <<"C", "o", "n", "t", "e", "n", "t", "-", "L", "e", "n", "g", "t", "h">>
XCgiExitCode == <<"X", "-", "C", "G", "I", "-", "E", "x", "i", "t", "-", "C", "o", "d", "e">>
XCgiStdErr == <<"X", "-", "C", "G", "I", "-", "S", "t", "d", "E", "r", "r">>
OctetStream == 
    <<"a", "p", "p", "l", "i", "c", "a", "t", "i", "o", "n", "/", "o", "c", "t", "e", "t", "-", "s", "t", "r", "e", "a", "m">>
TextPlainUtf8 == 
    <<"t", "e", "x", "t", "/", "p", "l", "a", "i", "n", ";", " ", "c", "h", "a", "r", "s", "e", "t", "=", "u", "t", "f", "-", "8">>
MalformedMessage ==
    <<"M", "a", "l", "f", "o", "r", "m", "e", "d", " ", "C", "G", "I", " ", "r", "e", "s", "p", "o", "n", "s", "e", " ", "(", "n", "o", " ", "h", "e", "a", "d", "e", "r", "s", ")", ".">>

\* /^(connection|transfer-encoding)$/i.test(k)
hopByHop(k) ==
    toLowerCase(k) \in {<<"c", "o", "n", "n", "e", "c", "t", "i", "o", "n">>, 
        <<"t", "r", "a", "n", "s", "f", "e", "r", "-", "e", "n", "c", "o", "d", "i", "n", "g">>}

RECURSIVE setCgiHeadersFrom(_, _, _)
setCgiHeadersFrom(headers, cgiHeaders, i) ==
    IF i > Len(cgiHeaders) THEN headers
    ELSE setCgiHeadersFrom(
            IF ~hopByHop(cgiHeaders[i][1])
            THEN headersSet(headers, cgiHeaders[i][1], cgiHeaders[i][2])
            ELSE headers,
            cgiHeaders, i + 1)

setCgiHeaders(headers, cgiHeaders) ==
    LET set == setCgiHeadersFrom(headers, cgiHeaders, 1)
    IN  IF ~headersHas(set, ContentType)
        THEN headersSet(set, ContentType, OctetStream)
        ELSE set

-----------------------------------------------------------------------------
(* The batch responder *)

\* parseCgiResponse: [headers, status, body]
parseCgiResponse(out) ==
    LET sepIdx == findHeaderBodySeparator(out)
        head   == parseCgiHead(SubSeq(out, 1, sepIdx))
    IN  IF sepIdx < 0
        THEN [headers |-> <<>>, status |-> 200, body |-> out]
        ELSE [headers |-> head.headers, status |-> head.status,
              body |-> SubSeq(out, sepIdx + 1, Len(out))]

\* s.replace(/[\r\n]+/g, " ")
RECURSIVE replaceNewlineRuns(_)
replaceNewlineRuns(s) ==
    LET run == RunLength(s, 0, {"\r", "\n"})
    IN  IF Len(s) = 0 THEN <<>>
        ELSE IF run > 0
        THEN <<" ">> \o replaceNewlineRuns(SubSeq(s, run + 1, Len(s)))
        ELSE <<s[1]>> \o replaceNewlineRuns(Tail(s))

\* the 1024 of slice(0, 1024)
SafeHeaderValueMax == 1024

safeHeaderValue(s) == slice(replaceNewlineRuns(s), 0, SafeHeaderValueMax)

\* fallbackStatus with the check of the body length forgotten
fallbackStatusIgnoringBody(code, responseBody) ==
    IF code = 0 THEN 200 ELSE 500

\* the status of the response for malformed CGI output:
\* exitCode === 0 && body.length ? 200 : 500
fallbackStatus(code, responseBody) ==
    IF code = 0 /\ Len(responseBody) > 0 THEN 200 ELSE 500

\* getCgiResponse after child.output() gave stdout, stderr and the exit code
getCgiResponse(out, err, code) ==
    LET parsed  == parseCgiResponse(out)
        message == IF Len(err) > 0 THEN decode(err) ELSE MalformedMessage
        fallbackHeaders ==
            headersSet(
              headersSet(newHeaders, ContentType,
                         IF Len(parsed.body) > 0 THEN OctetStream
                         ELSE TextPlainUtf8),
              XCgiExitCode, numberToString(code))
        h1 == setCgiHeaders(newHeaders, parsed.headers)
        h2 == IF code # 0
              THEN headersSet(h1, XCgiExitCode, numberToString(code)) ELSE h1
        h3 == IF Len(err) > 0
              THEN headersSet(h2, XCgiStdErr, safeHeaderValue(decode(err)))
              ELSE h2
        h4 == IF ~h3.threw /\ ~headersHas(h3, ContentLength)
              THEN headersSet(h3, ContentLength,
                              numberToString(Len(parsed.body)))
              ELSE h3
    IN  IF Len(parsed.headers) = 0
        THEN newResponse(
               IF Len(parsed.body) > 0 THEN parsed.body ELSE encode(message),
               fallbackStatus(code, parsed.body),
               fallbackHeaders)
        ELSE newResponse(parsed.body, parsed.status, h4)

-----------------------------------------------------------------------------
(* The environment builder of executeCgi *)

\* an optional value: undefined, or a value v as Some(v)
Undefined == <<>>

Some(v) == <<v>>

\* a ?? b
Coalesce(a, b) == IF a # Undefined THEN a[1] ELSE b

\* the names of the CGI variables
GATEWAY_INTERFACE ==
    <<"G", "A", "T", "E", "W", "A", "Y", "_", "I", "N", "T", "E", "R", "F", "A", "C", "E">>
PATH_INFO ==
    <<"P", "A", "T", "H", "_", "I", "N", "F", "O">>
PATH_TRANSLATED ==
    <<"P", "A", "T", "H", "_", "T", "R", "A", "N", "S", "L", "A", "T", "E", "D">>
QUERY_STRING ==
    <<"Q", "U", "E", "R", "Y", "_", "S", "T", "R", "I", "N", "G">>
REMOTE_ADDR ==
    <<"R", "E", "M", "O", "T", "E", "_", "A", "D", "D", "R">>
REMOTE_HOST ==
    <<"R", "E", "M", "O", "T", "E", "_", "H", "O", "S", "T">>
REQUEST_METHOD ==
    <<"R", "E", "Q", "U", "E", "S", "T", "_", "M", "E", "T", "H", "O", "D">>
REQUEST_URI ==
    <<"R", "E", "Q", "U", "E", "S", "T", "_", "U", "R", "I">>
SCRIPT_NAME ==
    <<"S", "C", "R", "I", "P", "T", "_", "N", "A", "M", "E">>
SERVER_NAME ==
    <<"S", "E", "R", "V", "E", "R", "_", "N", "A", "M", "E">>
SERVER_PORT ==
    <<"S", "E", "R", "V", "E", "R", "_", "P", "O", "R", "T">>
SERVER_PROTOCOL ==
    <<"S", "E", "R", "V", "E", "R", "_", "P", "R", "O", "T", "O", "C", "O", "L">>
SERVER_SOFTWARE ==
    <<"S", "E", "R", "V", "E", "R", "_", "S", "O", "F", "T", "W", "A", "R", "E">>
CONTENT_TYPE ==
    <<"C", "O", "N", "T", "E", "N", "T", "_", "T", "Y", "P", "E">>
CONTENT_LENGTH ==
    <<"C", "O", "N", "T", "E", "N", "T", "_", "L", "E", "N", "G", "T", "H">>
AUTH_TYPE ==
    <<"A", "U", "T", "H", "_", "T", "Y", "P", "E">>
REMOTE_IDENT ==
    <<"R", "E", "M", "O", "T", "E", "_", "I", "D", "E", "N", "T">>
REMOTE_USER ==
    <<"R", "E", "M", "O", "T", "E", "_", "U", "S", "E", "R">>

HTTP_ == <<"H", "T", "T", "P", "_">>

\* reservedEnvNames without REQUEST_URI: the standard variables of RFC 3875
StandardEnvNames ==
    {AUTH_TYPE, CONTENT_TYPE, CONTENT_LENGTH, GATEWAY_INTERFACE, PATH_INFO,
     PATH_TRANSLATED, QUERY_STRING, REMOTE_ADDR, REMOTE_HOST, REMOTE_IDENT,
     REMOTE_USER, REQUEST_METHOD, SCRIPT_NAME, SERVER_NAME, SERVER_PORT,
     SERVER_PROTOCOL, SERVER_SOFTWARE}

\* a Record<string, string>: a function from names to values
emptyRecord == [n \in {} |-> <<>>]

recordSet(rec, name, value) ==
    [n \in DOMAIN rec \cup {name} |-> IF n = name THEN value ELSE rec[n]]

\* { ...a, ...b }
spread(a, b) ==
    [n \in DOMAIN a \cup DOMAIN b |-> IF n \in DOMAIN b THEN b[n] ELSE a[n]]

\* getNetworkProtocol
getNetworkProtocol(url) ==
    IF url.protocol = <<"h", "t", "t", "p", "s", ":">> THEN Some(<<"h", "t", "t", "p", "s">>)
    ELSE IF url.protocol = <<"h", "t", "t", "p", ":">> THEN Some(<<"h", "t", "t", "p">>)
    ELSE Undefined

\* s.replace("-", "_"): a string pattern replaces the first occurrence only
replaceFirstDash(s) ==
    LET i == indexOf(s, "-")
    IN  IF i < 0 THEN s ELSE [s EXCEPT ![i + 1] = "_"]

\* request.headers.get(name) of a header list with one entry per name
requestHeaderGet(headers, name) ==
    IF mapHas(headers, name) THEN Some(mapGet(headers, name)) ELSE Undefined

\* the SERVER_PORT of executeCgi
serverPortOf(req, opts) ==
    LET networkProtocol ==
            IF opts.networkProtocol # Undefined THEN opts.networkProtocol
            ELSE getNetworkProtocol(req.url)
        hostHeader == Coalesce(requestHeaderGet(req.headers, <<"h", "o", "s", "t">>), <<>>)
        parts      == split(hostHeader, ":")
        portMaybe  == IF Len(parts) >= 2 THEN Some(parts[2]) ELSE Undefined
    IN  Coalesce(opts.serverPort,
          Coalesce(portMaybe,
            IF networkProtocol = Some(<<"h", "t", "t", "p", "s">>) THEN <<"4", "4", "3">>
            ELSE IF networkProtocol = Some(<<"h", "t", "t", "p">>) THEN <<"8", "0">>
            ELSE <<>>))

\* const env = { ... }: the standard variables
standardEnv(req, opts) ==
    LET hostHeader == Coalesce(requestHeaderGet(req.headers, <<"h", "o", "s", "t">>), <<>>)
        serverName == split(hostHeader, ":")[1]
    IN  (GATEWAY_INTERFACE :> <<"C", "G", "I", "/", "1", ".", "1">>)
        @@ (PATH_INFO :> Coalesce(opts.pathInfo, <<>>))
        @@ (PATH_TRANSLATED :> Coalesce(opts.pathTranslated, <<>>))
        @@ (QUERY_STRING :>
               IF Len(req.url.search) > 1
               THEN slice(req.url.search, 1, Len(req.url.search)) ELSE <<>>)
        @@ (REMOTE_ADDR :> Coalesce(opts.remoteAddr, <<>>))
        @@ (REMOTE_HOST :> Coalesce(opts.remoteHost, <<>>))
        @@ (REQUEST_METHOD :> req.method)
        @@ (REQUEST_URI :> req.url.pathname \o req.url.search)
        @@ (SCRIPT_NAME :> Coalesce(opts.scriptName, <<>>))
        @@ (SERVER_NAME :> serverName)
        @@ (SERVER_PORT :> serverPortOf(req, opts))
        @@ (SERVER_PROTOCOL :> Coalesce(opts.serverProtocol, <<"H", "T", "T", "P", "/", "1", ".", "1">>))
        @@ (SERVER_SOFTWARE :> Coalesce(opts.serverSoftware, <<"d", "e", "n", "o", "-", "c", "g", "i">>))

\* the name of the variable a request header is forwarded as
forwardedName(k) ==
    LET upper == replaceFirstDash(toUpperCase(k))
    IN  IF upper = CONTENT_TYPE THEN CONTENT_TYPE
        ELSE IF upper = CONTENT_LENGTH THEN CONTENT_LENGTH
        ELSE HTTP_ \o upper

\* for (const [k, v] of request.headers) { ... }
RECURSIVE forwardHeaders(_, _, _)
forwardHeaders(e, headers, i) ==
    IF i > Len(headers) THEN e
    ELSE forwardHeaders(
            recordSet(e, forwardedName(headers[i][1]), headers[i][2]),
            headers, i + 1)

\* the const env of executeCgi once the loop over the headers has run
buildEnv(req, opts) == forwardHeaders(standardEnv(req, opts), req.headers, 1)

\* the env option given to Deno.Command: { ...options.env, ...env }
commandEnv(opts, e) == spread(Coalesce(opts.env, emptyRecord), e)

-----------------------------------------------------------------------------
(* The streaming responder and getPrefixedStream *)

\* the 16384 of `if (headBuf.length > 16384) break`
HeadScanLimit == 16384

\* the loop with the test of the buffer's length forgotten
headLoopBreaksWithoutLimit(idx, buf) == idx >= 0 \/ idx = -2

\* whether the reading loop is left after a chunk was added to the buffer:
\* sepIndex >= 0 || sepIndex === -2, then headBuf.length > 16384
headLoopBreaks(idx, buf) ==
    idx >= 0 \/ idx = -2 \/ Len(buf) > HeadScanLimit

\* the body of a streaming response: the stream, not bytes
BodyStream == <<"ReadableStream">>

noBody ==
    [state |-> "none", queue |-> <<>>, closeRequested |-> FALSE,
     pulling |-> FALSE, cancelled |-> FALSE, cancelOutcome |-> "none"]

\* releaseLock that releases nothing
releaseLockForgotten(src) == src

\* reader.releaseLock() of the reader that holds the lock of src
releaseLock(src) == [src EXCEPT !.lock = "none"]

\* source.getReader() for the reader named who: a TypeError on a stream
\* that is locked to a reader
getReader(src, who) ==
    IF src.lock # "none" THEN [source |-> src, threw |-> TRUE]
    ELSE [source |-> [src EXCEPT !.lock = who], threw |-> FALSE]

\* getPrefixedStream with start(controller) not enqueueing the prefix
getPrefixedStreamWithoutPrefix(prefix, src) ==
    [source |-> getReader(src, "body").source,
     threw  |-> getReader(src, "body").threw,
     body   |-> [noBody EXCEPT !.state = "readable"]]

\* getPrefixedStream(prefix, source) up to the return of the new stream:
\* source.getReader() and start(controller); when getReader throws there
\* is no stream
getPrefixedStream(prefix, src) ==
    LET reader == getReader(src, "body")
    IN  [source |-> reader.source,
         threw  |-> reader.threw,
         body   |-> IF reader.threw THEN noBody
                    ELSE [noBody EXCEPT
                            !.state = "readable",
                            !.queue = IF Len(prefix) > 0 THEN <<prefix>>
                                      ELSE <<>>]]

\* what executeCgi fails with when getReader throws
LockedStreamError ==
    [kind |-> "throw", error |-> "TypeError: ReadableStream is locked"]

\* streamingResponse with a status that follows the child's exit code
streamingResponseByExitCode(headBytes, sepIdx, src) ==
    [result |-> newResponse(BodyStream, IF exitCode > 0 THEN 500 ELSE 200,
                            headersSet(newHeaders, ContentType, OctetStream)),
     source |-> getPrefixedStream(headBytes, src).source,
     body   |-> getPrefixedStream(headBytes, src).body]

\* getStreamingCgiResponse from the end of the reading loop on, the lock of
\* headReader released: [result, source, body]
streamingResponse(headBytes, sepIdx, src) ==
    LET passthrough == getPrefixedStream(headBytes, src)
        head        == parseCgiHead(SubSeq(headBytes, 1, sepIdx))
        resHeaders  == setCgiHeaders(newHeaders, head.headers)
        remainder   == SubSeq(headBytes, sepIdx + 1, Len(headBytes))
        prefixed    == getPrefixedStream(remainder, src)
    IN  IF sepIdx < 0
        THEN [result |-> IF passthrough.threw THEN LockedStreamError
                         ELSE newResponse(BodyStream, 200,
                                headersSet(newHeaders, ContentType, OctetStream)),
              source |-> passthrough.source, body |-> passthrough.body]
        ELSE IF resHeaders.threw
        THEN [result |-> [kind |-> "throw", error |-> "TypeError"],
              source |-> src, body |-> noBody]
        ELSE [result |-> IF prefixed.threw THEN LockedStreamError
                         ELSE newResponse(BodyStream, head.status, resHeaders),
              source |-> prefixed.source, body |-> prefixed.body]

\* cancel(reason) that does not reach the reader of the source
prefixedStreamCancelNotForwarded(src, fails) ==
    [source |-> src, outcome |-> "resolved"]

\* cancel(reason) of the stream getPrefixedStream made, the underlying
\* cancellation failing or not: reader.cancel(reason).catch(() => {}).
\* A reader whose lock is released rejects and leaves the source alone.
prefixedStreamCancel(src, fails) ==
    [source  |-> IF src.lock = "body" THEN [src EXCEPT !.cancelled = TRUE]
                 ELSE src,
     outcome |-> "resolved"]

-----------------------------------------------------------------------------
(* The request body pump of executeCgi *)

\* request.body === null
noRequestBody == [state |-> "none", left |-> 0]

\* child.stdin before the child is spawned
noStdin == [state |-> "none", pipe |-> "none", received |-> 0]

\* child.stdin of a child just spawned: a writable stream on an open pipe
spawnedStdin == [state |-> "writable", pipe |-> "open", received |-> 0]

\* the pump before executeCgi starts it; unhandledRejection tells that a
\* promise the task made was rejected with no handler on it
idlePump == [pc |-> "idle", unhandledRejection |-> FALSE]

\* close() that closes nothing
stdinCloseWithoutEffect(in) == [stdin |-> in, rejected |-> FALSE]

\* child.stdin.close() of the stream in state `state`: the stream and the
\* pipe after it, and whether the promise it returns is rejected (a stream
\* that is closed or errored rejects it with a TypeError)
stdinClose(in) ==
    IF in.state = "writable"
    THEN [stdin |-> [in EXCEPT !.state = "closed", !.pipe = "closed"],
          rejected |-> FALSE]
    ELSE [stdin |-> in, rejected |-> TRUE]

\* the task up to its first await: with no body child.stdin?.close(), else
\* request.body.pipeTo(child.stdin) is under way
startPump(reqBody, in) ==
    IF reqBody.state = "none"
    THEN [stdin |-> stdinClose(in).stdin,
          pump  |-> [pc |-> "done",
                     unhandledRejection |-> stdinClose(in).rejected]]
    ELSE [stdin |-> in, pump |-> [idlePump EXCEPT !.pc = "piping"]]

\* the catch of the task, pipeTo having rejected and left child.stdin as
\* `in`: child.stdin?.close() inside try/catch, whose returned promise no
\* one awaits or handles
pumpCatch(in) ==
    [stdin |-> stdinClose(in).stdin,
     pump  |-> [pc |-> "done", unhandledRejection |-> stdinClose(in).rejected]]

-----------------------------------------------------------------------------
(* The inputs *)

\* how many writes to stdout the child makes at most
MaxPieces == 4

\* how many headers a request has at most
MaxReqHeaders == 3

\* what the child writes to stdout in one write
Pieces ==
    { <<"H", "T", "T", "P", "/", "1", ".", "1", " ", "4", "0", "4", "\n">>,
      <<"S", "t", "a", "t", "u", "s", ":", " ", "1", "0", "0", "\r", "\n">>,
      <<"A", ":", " ", "1", "\n">>,
      <<"C", "o", "n", "t", "e", "n", "t", "-", "T", "y", "p", "e", ":", " ", "t", "\r", "\n">>,
      <<"\n">>,
      <<"\r", "\n">>,
      <<"b">> }

\* what the child writes to stdout in one write in the streaming runs
StreamPieces ==
    { p \in Pieces : p[1] \notin {"S", "C"} }

\* what the child writes to stderr
ErrPieces ==
    { <<"b", "o", "o", "m">>,
      <<"e", "\r", "\n", "f">>,
      <<"xFF">> }

ExitCodes == {0, 1}

\* the request headers to choose from, in the order the iteration of
\* request.headers gives them: lower case, sorted by name
RequestHeaderPool ==
    << <<<<"c", "o", "n", "t", "e", "n", "t", "-", "l", "e", "n", "g", "t", "h">>, <<"5">>>>,
       <<<<"c", "o", "n", "t", "e", "n", "t", "-", "t", "y", "p", "e">>, <<"t">>>>,
       <<<<"h", "o", "s", "t">>, <<"h">>>>,
       <<<<"h", "o", "s", "t">>, <<"h", ":", "8", "1">>>>,
       <<<<"h", "o", "s", "t">>, <<"[", ":", ":", "1", "]", ":", "8", "1">>>>,
       <<<<"x", "-", "a">>, <<"1">>>>,
       <<<<"x", "-", "b", "-", "c">>, <<"2">>>> >>

\* the subsequence of seq at the indices in S
RECURSIVE SubSeqAt(_, _)
SubSeqAt(seq, S) ==
    IF S = {} THEN <<>>
    ELSE LET last == CHOOSE i \in S : \A j \in S : j <= i
         IN  Append(SubSeqAt(seq, S \ {last}), seq[last])

RequestHeaderLists ==
    { SubSeqAt(RequestHeaderPool, S) :
        S \in { T \in SUBSET (1..Len(RequestHeaderPool)) :
                  /\ Cardinality(T) <= MaxReqHeaders
                  /\ Cardinality(T \cap {3, 4, 5}) <= 1 } }

Urls ==
    { [protocol |-> <<"h", "t", "t", "p", ":">>, pathname |-> <<"/", "p">>, search |-> <<>>],
      [protocol |-> <<"h", "t", "t", "p", "s", ":">>, pathname |-> <<"/", "p">>,
       search |-> <<"?", "a", "=", "1">>],
      [protocol |-> <<"f", "t", "p", ":">>, pathname |-> <<"/">>, search |-> <<>>] }

Requests ==
    [method : {<<"G", "E", "T">>}, url : Urls, headers : RequestHeaderLists]

\* the records options.env is chosen from
EnvRecords ==
    { emptyRecord,
      (<<"F", "O", "O">> :> <<"b", "a", "r">>),
      (SERVER_PORT :> <<"1">>) @@ (<<"F", "O", "O">> :> <<"b", "a", "r">>),
      (HTTP_ \o <<"X", "_", "A">> :> <<"z">>) @@ (REQUEST_METHOD :> <<"P", "U", "T">>),
      (AUTH_TYPE :> <<"B">>) @@ (CONTENT_TYPE :> <<"j">>) }

noOptions ==
    [streaming |-> Undefined, env |-> Undefined, serverSoftware |-> Undefined,
     serverProtocol |-> Undefined, serverPort |-> Undefined,
     remoteAddr |-> Undefined, remoteHost |-> Undefined,
     scriptName |-> Undefined, pathInfo |-> Undefined,
     pathTranslated |-> Undefined, networkProtocol |-> Undefined]

allOptions ==
    [noOptions EXCEPT
       !.serverSoftware = Some(<<"s", "w">>),
       !.serverProtocol = Some(<<"H", "T", "T", "P", "/", "2">>),
       !.remoteAddr = Some(<<"1", ".", "2">>),
       !.remoteHost = Some(<<"r", "h">>),
       !.scriptName = Some(<<"/", "s">>),
       !.pathInfo = Some(<<"/", "i">>),
       !.pathTranslated = Some(<<"/", "t">>)]

OptionRecords ==
    { [o EXCEPT !.streaming = st, !.env = e, !.serverPort = sp,
                !.networkProtocol = np] :
        o \in {noOptions, allOptions},
        st \in {Undefined, Some(TRUE)},
        e \in {Undefined} \cup {Some(r) : r \in EnvRecords},
        sp \in {Undefined, Some(<<"9">>)},
        np \in {Undefined, Some(<<"h", "t", "t", "p">>), Some(<<"h", "t", "t", "p", "s">>)} }

\* how many header lines a head block has at most after its status line
MaxHeadLines == 3

\* the first line of a head block: the scanner finds a boundary only in
\* output that starts with "HTTP/"
StatusLines ==
    { <<"H", "T", "T", "P", "/", "1", ".", "1", " ", "4", "0", "4">>,
      <<"H", "T", "T", "P", "/", "1", ".", "0">>,
      <<"H", "T", "T", "P", "/", "2", " ", "5", "0", "0">> }

\* the lines of a head block after the first
HeaderLines ==
    { <<"S", "t", "a", "t", "u", "s", ":", " ", "2", "0", "1">>,
      <<"s", "t", "a", "t", "u", "s", ":", "3", "0", "2", " ", "F", "o", "u", "n", "d">>,
      <<"S", "T", "A", "T", "U", "S", ":", " ", "2", "0", "x">>,
      <<"S", "t", "a", "t", "u", "s", " ", ":", " ", "5", "0", "0">>,
      <<"A", ":", " ", "1">>,
      <<"a", ":", " ", "2">>,
      <<"A", ":", " ", "3">>,
      <<"B", ":", " ", "x">> }

\* the lists of at most n header lines
RECURSIVE LineLists(_)
LineLists(n) ==
    IF n = 0 THEN {<<>>}
    ELSE LET shorter == LineLists(n - 1)
         IN  shorter \cup {Append(ls, l) : ls \in shorter, l \in HeaderLines}

\* the bytes of the lines, each ended by eol
RECURSIVE joinLines(_, _)
joinLines(lines, eol) ==
    IF Len(lines) = 0 THEN <<>>
    ELSE Head(lines) \o eol \o joinLines(Tail(lines), eol)

\* the head blocks the responders give the parser: stdout up to and with
\* the blank line
HeadBlocks ==
    { joinLines(<<first>> \o ls, eol) \o eol :
        first \in StatusLines, ls \in LineLists(MaxHeadLines),
        eol \in {<<"\n">>, <<"\r", "\n">>} }

\* how many bytes a buffer given to the scanner has at most after its
\* first bytes
MaxScanTail == 6

\* the first bytes of the buffers given to the scanner
ScanHeads ==
    { <<>>,
      <<"H", "T", "T">>,
      <<"H", "T", "T", "P">>,
      <<"H", "T", "T", "P", "/">>,
      <<"h", "t", "t", "p", "/">>,
      <<"H", "T", "T", "P", "/", "1", "\r", "\n">> }

\* the byte strings of at most n bytes out of CR, LF and a letter
RECURSIVE ScanTails(_)
ScanTails(n) ==
    IF n = 0 THEN {<<>>}
    ELSE LET shorter == ScanTails(n - 1)
         IN  shorter \cup {Append(t, b) : t \in shorter, b \in {"\r", "\n", "a"}}

ScanBuffers == {h \o t : h \in ScanHeads, t \in ScanTails(MaxScanTail)}

\* how many writes to stdout the child makes at most in the runs with
\* large writes
MaxLargePieces == 4

\* how many bytes a large write has
FillerSize == 8192

\* what the child writes to stdout in one write in those runs: a status
\* line, a large run of bytes with no line end, two bytes of a prolog; no
\* output made of them has a blank line
LargePieces ==
    { <<"H", "T", "T", "P", "/", "1", ".", "1", " ", "4", "0", "4", "\n">>,
      [i \in 1..FillerSize |-> "x"],
      <<"H", "T">> }

\* how many chunks a request body has at most
MaxBodyChunks == 2

\* how many writes to stdout the child makes at most in the runs that look
\* at the request body pump
MaxPumpPieces == 1

\* the request bodies: none, or a stream with so many chunks yet to come
RequestBodies ==
    {noRequestBody} \cup {[state |-> "open", left |-> n] : n \in 0..MaxBodyChunks}

\* the request of the runs that look at the child's output
plainRequest ==
    [method |-> <<"G", "E", "T">>,
     url |-> [protocol |-> <<"h", "t", "t", "p", ":">>, pathname |-> <<"/", "p">>,
              search |-> <<>>],
     headers |-> << <<<<"h", "o", "s", "t">>, <<"h">>>> >>]

-----------------------------------------------------------------------------
(* The state machine *)

streamingOf(opts) == Coalesce(opts.streaming, FALSE)

\* no child yet.  status is the promise child.status (pending, fulfilled
\* or rejected) and statusCaught tells that a rejection of it is handled:
\* child.status.catch(() => {}) of the streaming responder
noChild ==
    [state |-> "none", env |-> emptyRecord, stderr |-> "none",
     status |-> "none", statusCaught |-> FALSE]

noResult == [kind |-> "none"]

\* the bytes read from the child's stdout so far
BytesRead == Len(written) - Len(stdout)

\* the state before executeCgi is called on a request with the given body,
\* the child to make at most `pieces` writes to its stdout
InitState(req, reqBody, opts, pieces) ==
    /\ request = req
    /\ requestBody = reqBody
    /\ stdin = noStdin
    /\ pump = idlePump
    /\ options = opts
    /\ env = emptyRecord
    /\ child = noChild
    /\ pc = "start"
    /\ stdout = <<>>
    /\ stdoutOpen = TRUE
    /\ written = <<>>
    /\ stderr = <<>>
    /\ exitCode = -1
    /\ headBuf = <<>>
    /\ sepIndex = -1
    /\ source = [lock |-> "none", cancelled |-> FALSE]
    /\ result = noResult
    /\ body = noBody
    /\ delivered = <<>>
    /\ piecesLeft = pieces

\* the same for a request without a body
InitWith(req, opts) == InitState(req, noRequestBody, opts, MaxPieces)

\* executeCgi up to its first await, the child launched: the environment is
\* built, the child spawned, and the responder entered (the streaming one
\* takes the reader of stdout before it first waits)
ExecuteCgi ==
    /\ pc = "start"
    /\ env' = buildEnv(request, options)
    /\ child' = [state  |-> "running",
                 env    |-> commandEnv(options, env'),
                 stderr |-> IF streamingOf(options) THEN "null" ELSE "piped",
                 status |-> "pending",
                 statusCaught |-> streamingOf(options)]
    /\ pc' = IF streamingOf(options) THEN "head" ELSE "output"
    /\ source' = IF streamingOf(options)
                 THEN getReader(source, "head").source ELSE source
    /\ stdin' = startPump(requestBody, spawnedStdin).stdin
    /\ pump' = startPump(requestBody, spawnedStdin).pump
    /\ UNCHANGED <<request, requestBody, options, stdout, stdoutOpen, written, stderr,
                   exitCode, headBuf, sepIndex, result, body, delivered,
                   piecesLeft>>

\* executeCgi when cmd.spawn() throws: the call fails
ExecuteCgiLaunchFailure ==
    /\ pc = "start"
    /\ env' = buildEnv(request, options)
    /\ child' = [state  |-> "failed",
                 env    |-> commandEnv(options, env'),
                 stderr |-> IF streamingOf(options) THEN "null" ELSE "piped",
                 status |-> "none",
                 statusCaught |-> FALSE]
    /\ result' = [kind |-> "throw", error |-> "LaunchFailure"]
    /\ pc' = "done"
    /\ UNCHANGED <<request, requestBody, stdin, pump, options, stdout, stdoutOpen, written, stderr,
                   exitCode, headBuf, sepIndex, source, body, delivered,
                   piecesLeft>>

\* the child writes to its stdout
ChildWriteStdout ==
    \E p \in IF streamingOf(options) THEN StreamPieces ELSE Pieces :
        /\ child.state = "running"
        /\ exitCode = -1
        /\ ~source.cancelled
        /\ piecesLeft > 0
        /\ stdout' = stdout \o p
        /\ written' = written \o p
        /\ piecesLeft' = piecesLeft - 1
        /\ UNCHANGED <<request, requestBody, stdin, pump, options, env, child, pc, stdoutOpen, stderr,
                       exitCode, headBuf, sepIndex, source, result, body,
                       delivered>>

\* the child writes to its stdout, large writes among them
ChildWriteLarge ==
    \E p \in LargePieces :
        /\ child.state = "running"
        /\ exitCode = -1
        /\ ~source.cancelled
        /\ piecesLeft > 0
        /\ stdout' = stdout \o p
        /\ written' = written \o p
        /\ piecesLeft' = piecesLeft - 1
        /\ UNCHANGED <<request, requestBody, stdin, pump, options, env, child,
                       pc, stdoutOpen, stderr, exitCode, headBuf, sepIndex,
                       source, result, body, delivered>>

\* the child writes to its stderr, which is piped in batch mode only
ChildWriteStderr ==
    \E e \in ErrPieces :
        /\ child.state = "running"
        /\ child.stderr = "piped"
        /\ exitCode = -1
        /\ stderr = <<>>
        /\ stderr' = e
        /\ UNCHANGED <<request, requestBody, stdin, pump, options, env, child, pc, stdout, stdoutOpen,
                       written, exitCode, headBuf, sepIndex, source, result,
                       body, delivered, piecesLeft>>

\* the child exits, which closes its stdout and settles child.status.  The
\* streaming responder looks at that promise only to catch its rejection;
\* a rejection is taken into account in streaming mode only.
ChildExit ==
    \E code \in ExitCodes,
       outcome \in IF streamingOf(options) THEN {"fulfilled", "rejected"}
                   ELSE {"fulfilled"} :
        /\ child.state = "running"
        /\ exitCode = -1
        /\ exitCode' = code
        /\ child' = [child EXCEPT !.status = outcome]
        /\ stdoutOpen' = FALSE
        /\ UNCHANGED <<request, requestBody, stdin, pump, options, env, pc,
                       stdout, written, stderr, headBuf, sepIndex, source,
                       result, body, delivered, piecesLeft>>

\* getCgiResponse once child.output() resolves: the child has exited and
\* all it wrote is collected
GetCgiResponse ==
    /\ pc = "output"
    /\ exitCode # -1
    /\ result' = getCgiResponse(written, stderr, exitCode)
    /\ stdout' = <<>>
    /\ pc' = "done"
    /\ UNCHANGED <<request, requestBody, stdin, pump, options, env, child, stdoutOpen, written, stderr,
                   exitCode, headBuf, sepIndex, source, body, delivered,
                   piecesLeft>>

\* one turn of the reading loop of getStreamingCgiResponse, from the
\* resolution of headReader.read() to the next read or, the loop left, to
\* the return of the response
HeadRead ==
    /\ pc = "head"
    /\ stdout # <<>> \/ ~stdoutOpen
    /\ LET done == stdout = <<>>
           buf  == headBuf \o stdout
           idx  == IF done THEN sepIndex ELSE findHeaderBodySeparator(buf)
           stop == done \/ headLoopBreaks(idx, buf)
           released == releaseLock(source)
           made == streamingResponse(buf, idx, released)
       IN  /\ headBuf' = buf
           /\ sepIndex' = idx
           /\ stdout' = <<>>
           /\ IF stop
              THEN /\ result' = made.result
                   /\ source' = made.source
                   /\ body' = made.body
                   /\ pc' = "done"
              ELSE UNCHANGED <<result, source, body, pc>>
    /\ UNCHANGED <<request, requestBody, stdin, pump, options, env, child, stdoutOpen, written, stderr,
                   exitCode, delivered, piecesLeft>>

\* the stream calls pull(controller), its queue being below the high water
\* mark of one chunk: reader.read() is issued
BodyPullStart ==
    /\ body.state = "readable"
    /\ ~body.closeRequested
    /\ ~body.pulling
    /\ body.queue = <<>>
    /\ body' = [body EXCEPT !.pulling = TRUE]
    /\ UNCHANGED <<request, requestBody, stdin, pump, options, env, child, pc, stdout, stdoutOpen,
                   written, stderr, exitCode, headBuf, sepIndex, source,
                   result, delivered, piecesLeft>>

\* pull(controller) from the resolution of reader.read() on.  A cancelled
\* source resolves the read with done; close and enqueue throw on a stream
\* that is no longer readable, which the catch turns into releaseLock.
BodyPullSettle ==
    /\ body.pulling
    /\ source.cancelled \/ stdout # <<>> \/ ~stdoutOpen
    /\ LET done == source.cancelled \/ stdout = <<>>
       IN  /\ stdout' = IF done THEN stdout ELSE <<>>
           /\ IF done
              THEN /\ body' = [body EXCEPT
                                 !.pulling = FALSE,
                                 !.closeRequested =
                                     body.state = "readable" /\ body.queue # <<>>,
                                 !.state =
                                     IF body.state = "readable" /\ body.queue = <<>>
                                     THEN "closed" ELSE body.state]
                   /\ source' = releaseLock(source)
              ELSE IF body.state = "readable"
              THEN /\ body' = [body EXCEPT !.pulling = FALSE,
                                           !.queue = Append(body.queue, stdout)]
                   /\ UNCHANGED source
              ELSE /\ body' = [body EXCEPT !.pulling = FALSE]
                   /\ source' = releaseLock(source)
    /\ UNCHANGED <<request, requestBody, stdin, pump, options, env, child, pc, stdoutOpen, written,
                   stderr, exitCode, headBuf, sepIndex, result, delivered,
                   piecesLeft>>

\* the consumer of the response body reads a chunk
ConsumerRead ==
    /\ result.kind = "response"
    /\ body.state = "readable"
    /\ body.queue # <<>>
    /\ delivered' = delivered \o Head(body.queue)
    /\ body' = [body EXCEPT
                  !.queue = Tail(body.queue),
                  !.state = IF body.closeRequested /\ Tail(body.queue) = <<>>
                            THEN "closed" ELSE "readable"]
    /\ UNCHANGED <<request, requestBody, stdin, pump, options, env, child, pc, stdout, stdoutOpen,
                   written, stderr, exitCode, headBuf, sepIndex, source,
                   result, piecesLeft>>

\* the consumer cancels the response body: the stream closes, drops its
\* queue and calls cancel(reason)
ConsumerCancel ==
    \E fails \in BOOLEAN :
        /\ result.kind = "response"
        /\ body.state = "readable"
        /\ LET c == prefixedStreamCancel(source, fails)
           IN  /\ source' = c.source
               /\ body' = [body EXCEPT !.state = "closed", !.queue = <<>>,
                                       !.cancelled = TRUE,
                                       !.cancelOutcome = c.outcome]
        /\ UNCHANGED <<request, requestBody, stdin, pump, options, env, child, pc, stdout, stdoutOpen,
                       written, stderr, exitCode, headBuf, sepIndex, result,
                       delivered, piecesLeft>>

\* what either responder makes of a head block: parseCgiHead, then
\* setCgiHeaders on new Headers
parsedHead(headBytes) ==
    LET head == parseCgiHead(headBytes)
    IN  [kind |-> "head", headers |-> head.headers, status |-> head.status,
         response |-> setCgiHeaders(newHeaders, head.headers)]

\* a responder parses the head block in headBuf
ParseCgiHead ==
    /\ pc = "parse"
    /\ result' = parsedHead(headBuf)
    /\ pc' = "parsed"
    /\ UNCHANGED <<request, requestBody, stdin, pump, options, env, child,
                   stdout, stdoutOpen, written, stderr, exitCode, headBuf,
                   sepIndex, source, body, delivered, piecesLeft>>

\* a responder runs the scanner on the bytes in headBuf
FindHeaderBodySeparator ==
    /\ pc = "scan"
    /\ sepIndex' = findHeaderBodySeparator(headBuf)
    /\ pc' = "scanned"
    /\ UNCHANGED <<request, requestBody, stdin, pump, options, env, child,
                   stdout, stdoutOpen, written, stderr, exitCode, headBuf,
                   source, result, body, delivered, piecesLeft>>

\* the client ends the request body, every chunk of it sent
RequestBodyEnd ==
    /\ requestBody.state = "open"
    /\ requestBody.left = 0
    /\ requestBody' = [requestBody EXCEPT !.state = "ended"]
    /\ UNCHANGED <<request, stdin, pump, options, env, child, pc, stdout,
                   stdoutOpen, written, stderr, exitCode, headBuf, sepIndex,
                   source, result, body, delivered, piecesLeft>>

\* the request body fails: the connection of the client breaks
RequestBodyError ==
    /\ requestBody.state = "open"
    /\ requestBody' = [requestBody EXCEPT !.state = "errored"]
    /\ UNCHANGED <<request, stdin, pump, options, env, child, pc, stdout,
                   stdoutOpen, written, stderr, exitCode, headBuf, sepIndex,
                   source, result, body, delivered, piecesLeft>>

\* pipeTo moves a chunk of the request body to the child's stdin
PumpChunk ==
    /\ pump.pc = "piping"
    /\ requestBody.state = "open"
    /\ requestBody.left > 0
    /\ exitCode = -1
    /\ requestBody' = [requestBody EXCEPT !.left = @ - 1]
    /\ stdin' = [stdin EXCEPT !.received = @ + 1]
    /\ UNCHANGED <<request, pump, options, env, child, pc, stdout, stdoutOpen,
                   written, stderr, exitCode, headBuf, sepIndex, source,
                   result, body, delivered, piecesLeft>>

\* pipeTo writes a chunk to the stdin of a child that has exited: the write
\* fails, the stream is errored and its pipe closed, pipeTo cancels the
\* request body and rejects, and the catch of the task runs
PumpBrokenPipe ==
    /\ pump.pc = "piping"
    /\ requestBody.state = "open"
    /\ requestBody.left > 0
    /\ exitCode # -1
    /\ requestBody' = [requestBody EXCEPT !.state = "cancelled"]
    /\ LET broken == [stdin EXCEPT !.state = "errored", !.pipe = "closed"]
       IN  /\ stdin' = pumpCatch(broken).stdin
           /\ pump' = pumpCatch(broken).pump
    /\ UNCHANGED <<request, options, env, child, pc, stdout, stdoutOpen,
                   written, stderr, exitCode, headBuf, sepIndex, source,
                   result, body, delivered, piecesLeft>>

\* the request body has ended: pipeTo closes the child's stdin and
\* resolves, and the task is over
PumpEnd ==
    /\ pump.pc = "piping"
    /\ requestBody.state = "ended"
    /\ stdin' = stdinClose(stdin).stdin
    /\ pump' = [pump EXCEPT !.pc = "done"]
    /\ UNCHANGED <<request, requestBody, options, env, child, pc, stdout,
                   stdoutOpen, written, stderr, exitCode, headBuf, sepIndex,
                   source, result, body, delivered, piecesLeft>>

\* the request body has failed: pipeTo aborts the child's stdin, which
\* errors the stream and closes its pipe, and rejects, and the catch of the
\* task runs
PumpBodyError ==
    /\ pump.pc = "piping"
    /\ requestBody.state = "errored"
    /\ LET aborted == [stdin EXCEPT !.state = "errored", !.pipe = "closed"]
       IN  /\ stdin' = pumpCatch(aborted).stdin
           /\ pump' = pumpCatch(aborted).pump
    /\ UNCHANGED <<request, requestBody, options, env, child, pc, stdout,
                   stdoutOpen, written, stderr, exitCode, headBuf, sepIndex,
                   source, result, body, delivered, piecesLeft>>

-----------------------------------------------------------------------------
(* The specifications *)

\* the environment builder, over the requests and the options
InitEnv == \E req \in Requests, opts \in OptionRecords : InitWith(req, opts)

NextEnv == ExecuteCgi \/ ExecuteCgiLaunchFailure

SpecEnv == InitEnv /\ [][NextEnv]_vars

\* batch mode, over what the child writes and how it exits
InitBatch == InitWith(plainRequest, noOptions)

NextBatch ==
    \/ ExecuteCgi
    \/ ExecuteCgiLaunchFailure
    \/ ChildWriteStdout
    \/ ChildWriteStderr
    \/ ChildExit
    \/ GetCgiResponse

SpecBatch == InitBatch /\ [][NextBatch]_vars

\* streaming mode, over what the child writes, when it is read and what
\* the consumer of the body does
InitStream == InitWith(plainRequest, [noOptions EXCEPT !.streaming = Some(TRUE)])

NextStream ==
    \/ ExecuteCgi
    \/ ExecuteCgiLaunchFailure
    \/ ChildWriteStdout
    \/ ChildExit
    \/ HeadRead
    \/ BodyPullStart
    \/ BodyPullSettle
    \/ ConsumerRead
    \/ ConsumerCancel

SpecStream == InitStream /\ [][NextStream]_vars

\* the request body pump beside either responder, over the request
\* bodies, what the child writes and how it exits
InitPump ==
    \E reqBody \in RequestBodies, st \in {Undefined, Some(TRUE)} :
        InitState([plainRequest EXCEPT !.method =
                       IF reqBody.state = "none" THEN <<"G", "E", "T">>
                       ELSE <<"P", "O", "S", "T">>],
                  reqBody, [noOptions EXCEPT !.streaming = st], MaxPumpPieces)

NextPump ==
    \/ NextBatch
    \/ NextStream
    \/ RequestBodyEnd
    \/ RequestBodyError
    \/ PumpChunk
    \/ PumpBrokenPipe
    \/ PumpEnd
    \/ PumpBodyError

SpecPump == InitPump /\ [][NextPump]_vars

\* the same with the event loop running the continuation of pipeTo once
\* the request body has ended or failed; that the client ever ends the
\* body is not assumed
SpecPumpFair ==
    /\ InitPump
    /\ [][NextPump]_vars
    /\ WF_vars(PumpEnd)
    /\ WF_vars(PumpBodyError)

\* the header block parser, over the head blocks
InitHead ==
    \E block \in HeadBlocks :
        /\ request = plainRequest
        /\ requestBody = noRequestBody
        /\ stdin = noStdin
        /\ pump = idlePump
        /\ options = noOptions
        /\ env = emptyRecord
        /\ child = noChild
        /\ pc = "parse"
        /\ stdout = <<>>
        /\ stdoutOpen = TRUE
        /\ written = <<>>
        /\ stderr = <<>>
        /\ exitCode = -1
        /\ headBuf = block
        /\ sepIndex = Len(block)
        /\ source = [lock |-> "none", cancelled |-> FALSE]
        /\ result = noResult
        /\ body = noBody
        /\ delivered = <<>>
        /\ piecesLeft = 0

NextHead == ParseCgiHead

SpecHead == InitHead /\ [][NextHead]_vars

\* the boundary scanner, over the buffers
InitScan ==
    \E bytes \in ScanBuffers :
        /\ request = plainRequest
        /\ requestBody = noRequestBody
        /\ stdin = noStdin
        /\ pump = idlePump
        /\ options = noOptions
        /\ env = emptyRecord
        /\ child = noChild
        /\ pc = "scan"
        /\ stdout = <<>>
        /\ stdoutOpen = TRUE
        /\ written = <<>>
        /\ stderr = <<>>
        /\ exitCode = -1
        /\ headBuf = bytes
        /\ sepIndex = -1
        /\ source = [lock |-> "none", cancelled |-> FALSE]
        /\ result = noResult
        /\ body = noBody
        /\ delivered = <<>>
        /\ piecesLeft = 0

NextScan == FindHeaderBodySeparator

SpecScan == InitScan /\ [][NextScan]_vars

\* streaming mode with a head that grows past the scan limit
InitLarge ==
    InitState(plainRequest, noRequestBody,
              [noOptions EXCEPT !.streaming = Some(TRUE)], MaxLargePieces)

NextLarge ==
    \/ ExecuteCgi
    \/ ChildWriteLarge
    \/ ChildExit
    \/ HeadRead
    \/ BodyPullStart
    \/ BodyPullSettle
    \/ ConsumerRead

SpecLarge == InitLarge /\ [][NextLarge]_vars

\* how many pieces the child writes at most where reads of its stdout
\* may fail
MaxLockPieces == 3

\* headReader.read() rejects in the reading loop of
\* getStreamingCgiResponse: the finally block releases the lock and the
\* error leaves executeCgi, no response made
HeadReadError ==
    /\ pc = "head"
    /\ source' = releaseLock(source)
    /\ result' = [kind |-> "throw", error |-> "ReadError"]
    /\ pc' = "done"
    /\ UNCHANGED <<request, requestBody, stdin, pump, options, env, child,
                   stdout, stdoutOpen, written, stderr, exitCode, headBuf,
                   sepIndex, body, delivered, piecesLeft>>

\* reader.read() rejects in pull(controller): the catch block errors the
\* stream, which drops its queue, and releases the lock
BodyPullError ==
    /\ body.pulling
    /\ ~source.cancelled
    /\ body' = IF body.state = "readable"
               THEN [body EXCEPT !.pulling = FALSE, !.state = "errored",
                                 !.queue = <<>>]
               ELSE [body EXCEPT !.pulling = FALSE]
    /\ source' = releaseLock(source)
    /\ UNCHANGED <<request, requestBody, stdin, pump, options, env, child, pc,
                   stdout, stdoutOpen, written, stderr, exitCode, headBuf,
                   sepIndex, result, delivered, piecesLeft>>

\* streaming mode where a read of the child's stdout may fail
InitLocks ==
    InitState(plainRequest, noRequestBody,
              [noOptions EXCEPT !.streaming = Some(TRUE)], MaxLockPieces)

NextLocks ==
    \/ ExecuteCgi
    \/ ChildWriteStdout
    \/ ChildExit
    \/ HeadRead
    \/ HeadReadError
    \/ BodyPullStart
    \/ BodyPullSettle
    \/ BodyPullError
    \/ ConsumerRead
    \/ ConsumerCancel

SpecLocks == InitLocks /\ [][NextLocks]_vars

-----------------------------------------------------------------------------
(* Batch mode: the claims *)

\* executeCgi returned in batch mode, the child launched
BatchDone == pc = "done" /\ child.state = "running" /\ ~streamingOf(options)

\* the offset just after the first blank line of bytes (CRLFCRLF, else
\* LFLF), whatever bytes starts with; -1 when there is none
blankLineEnd(bytes) ==
    LET crlf == {i \in 0..(Len(bytes) - 4) :
                    /\ bytes[i + 1] = "\r" /\ bytes[i + 2] = "\n"
                    /\ bytes[i + 3] = "\r" /\ bytes[i + 4] = "\n"}
        lf   == {i \in 0..(Len(bytes) - 2) :
                    bytes[i + 1] = "\n" /\ bytes[i + 2] = "\n"}
    IN  IF crlf # {} THEN Min(crlf) + 4
        ELSE IF lf # {} THEN Min(lf) + 2
        ELSE -1

\* every header of the parsed head is a header of the response
carriesHeaders(response, cgiHeaders) ==
    \A i \in 1..Len(cgiHeaders) :
        /\ mapHas(response.headers, toLowerCase(cgiHeaders[i][1]))
        /\ mapGet(response.headers, toLowerCase(cgiHeaders[i][1]))
               = cgiHeaders[i][2]

\* C1: in batch mode, for stdout made of CGI header lines with no leading
\* HTTP/ status line, a blank line and a body, the response has the status
\* of the header block (a numeric Status: line, else 200), the header lines
\* as headers and the bytes after the blank line as body.
C1_HeaderLinesWithoutStatusLine ==
    (/\ BatchDone
     /\ ~startsWithU8(written, httpProlog)
     /\ blankLineEnd(written) > 0
     /\ parseCgiHead(SubSeq(written, 1, blankLineEnd(written))).headers # <<>>)
    => LET k    == blankLineEnd(written)
           head == parseCgiHead(SubSeq(written, 1, k))
       IN  /\ result.kind = "response"
           /\ result.status = head.status
           /\ carriesHeaders(result, head.headers)
           /\ result.body = SubSeq(written, k + 1, Len(written))

\* C2: in batch mode, whenever the scanner finds a boundary, the response
\* has the status the header block parser derives from the bytes before it
\* and the bytes after it as body, for every head block, one with a status
\* line and no header line too.
C2_BoundaryFoundStatusAndBody ==
    (BatchDone /\ findHeaderBodySeparator(written) >= 0)
    => LET k    == findHeaderBodySeparator(written)
           head == parseCgiHead(SubSeq(written, 1, k))
       IN  /\ result.kind = "response"
           /\ result.status = head.status
           /\ result.body = SubSeq(written, k + 1, Len(written))

C4_AlwaysAResponse ==
    pc = "done" => (result.kind = "response" <=> child.state = "running")

\* C5: every response has a Content-Type, and it is
\* application/octet-stream whenever a header block was parsed and the
\* child supplied no Content-Type.
C5_ContentTypeAlwaysSet ==
    (pc = "done" /\ result.kind = "response")
    => /\ mapHas(result.headers, toLowerCase(ContentType))
       /\ LET k    == IF streamingOf(options) THEN sepIndex
                      ELSE findHeaderBodySeparator(written)
              head == parseCgiHead(SubSeq(written, 1, k))
          IN  (/\ k >= 0
               /\ \A i \in 1..Len(head.headers) :
                     toLowerCase(head.headers[i][1]) # toLowerCase(ContentType))
              => mapGet(result.headers, toLowerCase(ContentType)) = OctetStream

-----------------------------------------------------------------------------
(* The environment: the claims *)

\* the child was given its environment
Spawned == child.state = "running"

\* C6: the environment passed to the child has every standard variable of
\* RFC 3875, with a string value, for every request and every options.
C6_StandardVariablesPresent ==
    Spawned => \A n \in StandardEnvNames : n \in DOMAIN child.env

\* a header name in upper case with every dash replaced by an underscore
allDashesReplaced(k) ==
    [i \in 1..Len(k) |-> IF k[i] = "-" THEN "_" ELSE ToUpperChar(k[i])]

contentHeaderNames ==
    {toLowerCase(ContentType), toLowerCase(ContentLength)}

\* C7: every request header other than Content-Type and Content-Length is
\* in the environment as HTTP_ and its name in upper case with every dash
\* replaced by an underscore, holding its value; Content-Type and
\* Content-Length are CONTENT_TYPE and CONTENT_LENGTH.
C7_HeadersForwarded ==
    Spawned =>
      \A i \in 1..Len(request.headers) :
         LET k == request.headers[i][1]
             v == request.headers[i][2]
             n == IF k \in contentHeaderNames THEN allDashesReplaced(k)
                  ELSE HTTP_ \o allDashesReplaced(k)
         IN  /\ n \in DOMAIN child.env
             /\ child.env[n] = v
             /\ k \notin contentHeaderNames
                  => \A j \in 1..Len(n) : n[j] # "-"

\* the port of a Host header (host, host:port, [v6] or [v6]:port): what
\* follows its last colon, unless the header ends with the bracket of an
\* IPv6 literal or has no colon
hostHeaderPort(host) ==
    LET colons == {i \in 1..Len(host) : host[i] = ":"}
        last   == CHOOSE i \in colons : \A j \in colons : j <= i
    IN  IF colons = {} \/ host[Len(host)] = "]" THEN Undefined
        ELSE Some(SubSeq(host, last + 1, Len(host)))

\* the default port of the network protocol: options.networkProtocol, else
\* the scheme of the request URL
protocolDefaultPort ==
    LET scheme == IF options.networkProtocol # Undefined
                  THEN options.networkProtocol[1]
                  ELSE SubSeq(request.url.protocol, 1,
                              Len(request.url.protocol) - 1)
    IN  IF scheme = <<"h", "t", "t", "p", "s">> THEN <<"4", "4", "3">>
        ELSE IF scheme = <<"h", "t", "t", "p">> THEN <<"8", "0">>
        ELSE <<>>

\* C8, the first sentence: a name the environment builder computes has
\* its computed value in the child's environment, whatever options.env
\* holds for it, and an entry of options.env reaches the child unchanged
\* when its name is not computed
C8_ComputedWinsOverOptionsEnv ==
    Spawned =>
      LET given == Coalesce(options.env, emptyRecord)
      IN  /\ DOMAIN child.env = DOMAIN env \cup DOMAIN given
          /\ \A n \in DOMAIN env : child.env[n] = env[n]
          /\ \A n \in DOMAIN given \ DOMAIN env : child.env[n] = given[n]

\* C8: every computed variable reaches the child with its computed value,
\* whatever options.env holds for it, an entry of options.env reaches the
\* child unchanged only when its name is not computed, and within
\* SERVER_PORT options.serverPort wins over the port of the Host header,
\* which wins over the default of the protocol.
C8_ComputedVariablesAndServerPort ==
    /\ C8_ComputedWinsOverOptionsEnv
    /\ Spawned =>
         LET host == Coalesce(
                       requestHeaderGet(request.headers, <<"h", "o", "s", "t">>),
                       <<>>)
         IN  child.env[SERVER_PORT] =
                Coalesce(options.serverPort,
                         Coalesce(hostHeaderPort(host), protocolDefaultPort))

-----------------------------------------------------------------------------
(* Streaming mode: the claims *)

\* C9: once the consumer has cancelled the body, the cancellation has
\* reached the reader of the child's stdout (unless the stream had ended
\* and the reader was released), no further byte is read from the child's
\* stdout, and the consumer's cancel did not fail, the underlying
\* cancellation failing or not.
C9_CancelStopsReading ==
    /\ [](body.cancelled =>
            /\ body.cancelOutcome = "resolved"
            /\ source.cancelled \/ (~stdoutOpen /\ stdout = <<>>))
    /\ [][body.cancelled => BytesRead' = BytesRead]_vars

\* C9: the body was cancelled while a read of the child's stdout was
\* pending, the child exited with bytes unread in the pipe, the pending
\* read was settled, and the bytes are still unread
C9_Witness ==
    /\ body.cancelled
    /\ body.cancelOutcome = "resolved"
    /\ source.cancelled
    /\ source.lock = "none"
    /\ ~body.pulling
    /\ stdout # <<>>
    /\ exitCode # -1

\* the bytes the body of the streaming response is to deliver, of the
\* bytes in all: those after the detected boundary, or all of them
afterBoundary(all) ==
    IF sepIndex >= 0 THEN SubSeq(all, sepIndex + 1, Len(all)) ELSE all

\* C10: the chunks the response body delivers, concatenated, are the
\* child's stdout after the detected boundary, or the whole of stdout when
\* none was detected: what was delivered and what is queued is at every
\* moment what was read of it, and the body ends when stdout ends, all of
\* it delivered.
C10_BodyIsStdoutAfterBoundary ==
    (pc = "done" /\ result.kind = "response" /\ ~body.cancelled)
    => /\ delivered \o Concat(body.queue)
            = afterBoundary(SubSeq(written, 1, BytesRead))
       /\ body.state = "closed"
            => /\ ~stdoutOpen
               /\ stdout = <<>>
               /\ delivered = afterBoundary(written)

\* C10: a boundary was found with bytes after it in the buffer, more
\* chunks came after, stdout ended and the body delivered all of them
C10_Witness ==
    /\ pc = "done"
    /\ result.kind = "response"
    /\ body.state = "closed"
    /\ ~body.cancelled
    /\ sepIndex >= 0
    /\ Len(headBuf) > sepIndex
    /\ Len(written) > Len(headBuf)
    /\ delivered = SubSeq(written, sepIndex + 1, Len(written))

-----------------------------------------------------------------------------
(* The request body pump: the claims *)

\* C11: whatever the pump does (it fails on a broken pipe or a failed
\* body, or it never completes) no failure of it is left unhandled, and
\* the response is the one the child's stdout, stderr and exit code give.
C11_PumpDetached ==
    /\ ~pump.unhandledRejection
    /\ BatchDone => result = getCgiResponse(written, stderr, exitCode)

\* the part of C11 that is about the response alone: executeCgi returns
\* with the pump in any state, still piping included, and what it returns
\* in batch mode is what the child's output and exit code give
C11_ResponseFromOutputOnly ==
    /\ BatchDone => result = getCgiResponse(written, stderr, exitCode)
    /\ (pc = "done" /\ child.state = "running") => result.kind # "none"

\* executeCgi has returned a response while the pump is still piping
C11_ResponseWhilePiping ==
    /\ pc = "done"
    /\ result.kind = "response"
    /\ pump.pc = "piping"
    /\ requestBody.state = "open"

-----------------------------------------------------------------------------
(* The header block parser: the claims *)

\* the lines of the head block in headBuf
headLines == nonEmptyLines(normalizeNewlines(decode(headBuf)))

\* the name and the value of a line with a colon: what is before the first
\* colon and what is after it, blanks around them dropped
lineName(line) == trim(SubSeq(line, 1, indexOf(line, ":")))

lineValue(line) == trim(SubSeq(line, indexOf(line, ":") + 2, Len(line)))

\* the lines after the first that are Status lines, and those of them
\* whose value begins with three digits
statusLineIndices ==
    {i \in 2..Len(headLines) :
        /\ indexOf(headLines[i], ":") >= 0
        /\ toLowerCase(lineName(headLines[i])) = statusName}

numericStatusLineIndices ==
    {i \in statusLineIndices :
        LET v == lineValue(headLines[i])
        IN  Len(v) >= 3 /\ \A k \in 1..3 : v[k] \in Digits}

threeDigitNumber(v) ==
    100 * DigitValue(v[1]) + 10 * DigitValue(v[2]) + DigitValue(v[3])

\* C12: no line named status, in any case, becomes a header of the parsed
\* head or of the response, and the status is that of the last Status
\* line whose value begins with three digits, else that of the leading
\* HTTP/x.y NNN line, else 200; a Status line with another value changes
\* nothing.
C12_StatusLines ==
    pc = "parsed" =>
      /\ \A i \in 1..Len(result.headers) :
            toLowerCase(result.headers[i][1]) # statusName
      /\ ~result.response.threw => ~headersHas(result.response, statusName)
      /\ result.status =
            IF numericStatusLineIndices # {}
            THEN threeDigitNumber(lineValue(headLines[
                   CHOOSE i \in numericStatusLineIndices :
                     \A j \in numericStatusLineIndices : j <= i]))
            ELSE IF matchStatusLine(headLines[1]) # <<>>
            THEN threeDigitNumber(matchStatusLine(headLines[1]))
            ELSE 200

\* C12: a head with a leading status line and two Status lines of
\* different numbers, then one whose value is no number, was parsed: the
\* status is that of the second
C12_Witness ==
    /\ pc = "parsed"
    /\ matchStatusLine(headLines[1]) # <<>>
    /\ Cardinality(numericStatusLineIndices) = 2
    /\ \E i \in statusLineIndices \ numericStatusLineIndices :
          \A j \in numericStatusLineIndices : j < i
    /\ \E i, j \in numericStatusLineIndices :
          /\ i < j
          /\ lineValue(headLines[i]) # lineValue(headLines[j])
          /\ result.status = threeDigitNumber(lineValue(headLines[j]))

\* the values of the header lines whose name is `name` in some case, in
\* the order of the lines
RECURSIVE valuesOf(_, _)
valuesOf(name, i) ==
    IF i > Len(headLines) THEN <<>>
    ELSE IF /\ indexOf(headLines[i], ":") >= 0
            /\ toLowerCase(lineName(headLines[i])) = toLowerCase(name)
         THEN <<lineValue(headLines[i])>> \o valuesOf(name, i + 1)
         ELSE valuesOf(name, i + 1)

\* values joined by ", "
RECURSIVE joinValues(_)
joinValues(values) ==
    IF Len(values) = 1 THEN values[1]
    ELSE values[1] \o <<",", " ">> \o joinValues(Tail(values))

\* the names of the header lines that are no Status lines, lower case
headerNames ==
    {toLowerCase(lineName(headLines[i])) :
        i \in {j \in 2..Len(headLines) : indexOf(headLines[j], ":") >= 0}
             \ statusLineIndices}

\* C13: the response has one header for each name of the head's lines,
\* names compared without case, and its value is the values of all the
\* lines of that name joined by ", " in the order of the lines.
C13_DuplicatesCombined ==
    (pc = "parsed" /\ ~result.response.threw) =>
      \A name \in headerNames :
        /\ headersHas(result.response, name)
        /\ headersGet(result.response, name) = joinValues(valuesOf(name, 2))

\* the part of C13 that holds: lines whose names are the same to the
\* letter are one header of the parsed head with the values joined by
\* ", " in the order of the lines, and the names are in first-seen order
C13_SameCaseDuplicatesCombined ==
    pc = "parsed" =>
      LET named == SelectSeq(
                     [i \in 1..(Len(headLines) - 1) |-> headLines[i + 1]],
                     LAMBDA l : /\ indexOf(l, ":") >= 0
                                /\ toLowerCase(lineName(l)) # statusName)
          valuesFor(n) == SelectSeq(named, LAMBDA l : lineName(l) = n)
          firstAt(n) == CHOOSE i \in 1..Len(named) :
                          /\ lineName(named[i]) = n
                          /\ \A j \in 1..(i - 1) : lineName(named[j]) # n
      IN  /\ {result.headers[i][1] : i \in 1..Len(result.headers)}
                = {lineName(named[i]) : i \in 1..Len(named)}
          /\ \A i \in 1..Len(result.headers) :
                result.headers[i][2] =
                  joinValues([k \in 1..Len(valuesFor(result.headers[i][1])) |->
                               lineValue(valuesFor(result.headers[i][1])[k])])
          /\ \A i, j \in 1..Len(result.headers) :
                i < j => /\ result.headers[i][1] # result.headers[j][1]
                         /\ firstAt(result.headers[i][1])
                              < firstAt(result.headers[j][1])

-----------------------------------------------------------------------------
(* Batch mode: the diagnostic headers and the length *)

\* C14: a batch response for a run whose child wrote to stderr has an
\* X-CGI-StdErr header, with no CR or LF in its value and at most 1024
\* characters.
C14_StdErrHeader ==
    (BatchDone /\ result.kind = "response" /\ Len(stderr) > 0) =>
      /\ mapHas(result.headers, toLowerCase(XCgiStdErr))
      /\ LET v == mapGet(result.headers, toLowerCase(XCgiStdErr))
         IN  /\ Len(v) <= 1024
             /\ \A i \in 1..Len(v) : v[i] \notin {"\r", "\n"}

\* the part of C14 that holds: with a header block parsed and stderr
\* written, the response has the header, on one line and within the length
C14_StdErrHeaderWhenParsed ==
    (/\ BatchDone /\ result.kind = "response" /\ Len(stderr) > 0
     /\ Len(parseCgiResponse(written).headers) > 0) =>
      /\ mapHas(result.headers, toLowerCase(XCgiStdErr))
      /\ LET v == mapGet(result.headers, toLowerCase(XCgiStdErr))
         IN  /\ Len(v) <= 1024
             /\ \A i \in 1..Len(v) : v[i] \notin {"\r", "\n"}

\* C15: a batch response has a Content-Length header: the script's when
\* it gave one, else the length of the response body in bytes.
C15_ContentLength ==
    (BatchDone /\ result.kind = "response") =>
      /\ mapHas(result.headers, toLowerCase(ContentLength))
      /\ LET parsed == parseCgiResponse(written)
         IN  mapGet(result.headers, toLowerCase(ContentLength)) =
               IF mapHas(parsed.headers, ContentLength)
               THEN mapGet(parsed.headers, ContentLength)
               ELSE numberToString(Len(result.body))

\* the part of C15 that holds: with a header block parsed the response
\* has a Content-Length, the length of the body when the script gave none
C15_ContentLengthWhenParsed ==
    (/\ BatchDone /\ result.kind = "response"
     /\ Len(parseCgiResponse(written).headers) > 0) =>
      /\ mapHas(result.headers, toLowerCase(ContentLength))
      /\ ~(\E i \in 1..Len(parseCgiResponse(written).headers) :
             toLowerCase(parseCgiResponse(written).headers[i][1])
               = toLowerCase(ContentLength))
         => mapGet(result.headers, toLowerCase(ContentLength))
              = numberToString(Len(result.body))

-----------------------------------------------------------------------------
(* The boundary scanner: the claims *)

\* the offset i is just after a CR LF CR LF of the buffer in headBuf
afterCrLfCrLf(i) ==
    /\ 4 <= i /\ i <= Len(headBuf)
    /\ headBuf[i - 3] = "\r" /\ headBuf[i - 2] = "\n"
    /\ headBuf[i - 1] = "\r" /\ headBuf[i] = "\n"

\* the offset i is just after an LF LF of the buffer in headBuf
afterLfLf(i) ==
    /\ 2 <= i /\ i <= Len(headBuf)
    /\ headBuf[i - 1] = "\n" /\ headBuf[i] = "\n"

\* C16: the scanner gives -1 for a buffer of fewer than 5 bytes, -2 for
\* one of 5 bytes or more that does not start with "HTTP/", else the
\* offset just after the first CR LF CR LF if there is one, else the
\* offset just after the first LF LF, else -3; an offset it gives is
\* above 0, at most the length, and just after a terminator.
C16_ScannerOutcome ==
    pc = "scanned" =>
      /\ IF Len(headBuf) < 5 THEN sepIndex = -1
         ELSE IF SubSeq(headBuf, 1, 5) # <<"H", "T", "T", "P", "/">>
         THEN sepIndex = -2
         ELSE IF \E i \in 1..Len(headBuf) : afterCrLfCrLf(i)
         THEN /\ afterCrLfCrLf(sepIndex)
              /\ \A i \in 1..(sepIndex - 1) : ~afterCrLfCrLf(i)
         ELSE IF \E i \in 1..Len(headBuf) : afterLfLf(i)
         THEN /\ afterLfLf(sepIndex)
              /\ \A i \in 1..(sepIndex - 1) : ~afterLfLf(i)
         ELSE sepIndex = -3
      /\ sepIndex >= 0 =>
            /\ 0 < sepIndex /\ sepIndex <= Len(headBuf)
            /\ afterCrLfCrLf(sepIndex) \/ afterLfLf(sepIndex)

\* C16: the scanner gave the offset after a CR LF CR LF of a buffer that
\* has an LF LF before it
C16_Witness ==
    /\ pc = "scanned"
    /\ sepIndex >= 0
    /\ afterCrLfCrLf(sepIndex)
    /\ \E i \in 1..(sepIndex - 4) : afterLfLf(i)

-----------------------------------------------------------------------------
(* Streaming mode: the header phase *)

\* C17: while the header phase reads, no boundary and no bad prolog was
\* seen and the buffer holds at most 16384 bytes, all that was read; so
\* nothing is read past a buffer above 16384 bytes before the response is
\* returned.  A phase that ends with no boundary returns a 200 with
\* Content-Type application/octet-stream whose body begins with the
\* buffer.
C17_HeaderPhase ==
    /\ pc = "head" =>
          /\ sepIndex \in {-1, -3}
          /\ Len(headBuf) <= 16384
          /\ BytesRead = Len(headBuf)
    /\ (pc = "done" /\ child.state = "running" /\ sepIndex < 0) =>
          /\ result.kind = "response"
          /\ result.status = 200
          /\ result.headers = <<<<toLowerCase(ContentType), OctetStream>>>>
          /\ LET out == delivered \o Concat(body.queue)
             IN  /\ Len(out) >= Len(headBuf)
                 /\ SubSeq(out, 1, Len(headBuf)) = headBuf

\* C17: the phase ended on a buffer above 16384 bytes with no boundary in
\* it, the child has written more since, and none of that was read
C17_Witness ==
    /\ pc = "done"
    /\ sepIndex = -3
    /\ Len(headBuf) > 16384
    /\ result.kind = "response" /\ result.status = 200
    /\ body.queue = <<headBuf>>
    /\ stdout # <<>>
    /\ BytesRead = Len(headBuf)

-----------------------------------------------------------------------------
(* Streaming mode: the exit status *)

\* C18: in streaming mode a rejection of child.status is always handled,
\* executeCgi returns a response and not a failure, and status, headers
\* and body are those that the bytes read give, whatever the exit code and
\* whether child.status was fulfilled or rejected: the boundary is the
\* scanner's on the head buffer, status and headers are the parser's on
\* the head (200 and application/octet-stream with no boundary) and the
\* body delivers the bytes read after the boundary.
C18_ExitStatusIgnored ==
    /\ child.status = "rejected" => child.statusCaught
    /\ pc \in {"head", "done"} /\ child.state = "running" =>
          sepIndex = findHeaderBodySeparator(headBuf)
    /\ (pc = "done" /\ child.state = "running") =>
          /\ result.kind = "response"
          /\ result.status =
                IF sepIndex < 0 THEN 200
                ELSE parseCgiHead(SubSeq(headBuf, 1, sepIndex)).status
          /\ result.headers =
                IF sepIndex < 0 THEN <<<<toLowerCase(ContentType), OctetStream>>>>
                ELSE setCgiHeaders(newHeaders,
                       parseCgiHead(SubSeq(headBuf, 1, sepIndex)).headers).list
          /\ ~body.cancelled =>
                delivered \o Concat(body.queue)
                  = afterBoundary(SubSeq(written, 1, BytesRead))

\* C18: the child exited with code 1 and child.status rejected before the
\* head was read; the response has the status of the head, and the body
\* has ended with every byte after the boundary delivered
C18_Witness ==
    /\ pc = "done"
    /\ exitCode = 1
    /\ child.status = "rejected"
    /\ Len(headBuf) = Len(written)
    /\ result.kind = "response" /\ result.status = 404
    /\ body.state = "closed" /\ ~body.cancelled
    /\ delivered # <<>>
    /\ delivered = afterBoundary(written)

-----------------------------------------------------------------------------
(* The request body pump: the child's stdin *)

\* C19: the child's stdin is closed at once when the request has no
\* body; it is closed once the pump task has finished, however it
\* finished; it is not closed by the end of the body before the last
\* chunk is piped; and a body that has ended or failed while it is piped
\* leads to stdin closed.
C19_StdinClosed ==
    /\ [](child.state = "running" /\ requestBody.state = "none"
            => stdin.pipe = "closed")
    /\ [](pump.pc = "done" => stdin.pipe = "closed")
    /\ [](stdin.state = "closed" /\ requestBody.state # "none"
            => requestBody.state = "ended" /\ requestBody.left = 0)
    /\ (pump.pc = "piping" /\ requestBody.state \in {"ended", "errored"})
         ~> (stdin.pipe = "closed")

\* C19: the body ended after its chunks were piped to the child, and the
\* pump closed stdin and finished
C19_Witness ==
    /\ pump.pc = "done"
    /\ requestBody.state = "ended"
    /\ stdin.received = MaxBodyChunks
    /\ stdin.state = "closed"
    /\ stdin.pipe = "closed"

-----------------------------------------------------------------------------
(* Streaming mode: the chunks *)

\* C20: the boundary the streaming responder detected is the one the
\* scanner gives on the whole of the child's output, however the output
\* was split into chunks: once the child has ended its output, a boundary
\* was detected exactly if the whole output has one, and at the same
\* offset, so that status, headers and body are those of the whole output.
C20_BoundaryIndependentOfChunks ==
    (pc = "done" /\ child.state = "running" /\ ~stdoutOpen) =>
      LET whole == findHeaderBodySeparator(written)
      IN  /\ sepIndex >= 0 <=> whole >= 0
          /\ sepIndex >= 0 => sepIndex = whole

\* the part of C20 that holds: the boundary detected is the scanner's on
\* the bytes read up to the chunk in which it was found, a terminator
\* split across chunks included
C20_BoundaryOfBytesRead ==
    (pc = "done" /\ child.state = "running") =>
      /\ sepIndex = findHeaderBodySeparator(headBuf)
      /\ headBuf = SubSeq(written, 1, Len(headBuf))

-----------------------------------------------------------------------------
(* Streaming mode: the readers of the child's stdout *)

\* the reading loop of getStreamingCgiResponse is running
HeadPhase == pc = "head"

\* the reading loop was left, the child launched
HeadPhaseLeft == pc = "done" /\ child.state = "running"

\* C21: in streaming mode the child's stdout has at most one reader at a
\* time.  While the reading loop runs the header reader holds the lock and
\* there is no body stream; on every exit of the loop (boundary found, bad
\* prologue, stream end, read error) the header reader's lock is released
\* before the body reader is acquired, so that acquiring it never fails on
\* a locked stream and the lock is the body reader's exactly when a body
\* stream was made; the body reader's lock is released when the stream
\* ends or a read fails.
C21_OneReader ==
    /\ HeadPhase => source.lock = "head" /\ body.state = "none"
    /\ HeadPhaseLeft =>
          /\ source.lock # "head"
          /\ result # LockedStreamError
          /\ body.state = "none" => source.lock = "none"
          /\ source.lock = "body" => body.state \in {"readable", "closed"}
    /\ (result.kind = "throw" /\ result.error = "ReadError") =>
          source.lock = "none" /\ body.state = "none"
    /\ (body.closeRequested \/ (body.state = "closed" /\ ~body.cancelled)) =>
          source.lock = "none"
    /\ body.state = "errored" => source.lock = "none"
    /\ (body.state = "readable" /\ ~body.closeRequested) =>
          source.lock = "body"

\* the body reader was acquired after a boundary was found, delivered body
\* bytes, and released its lock on a failed read
C21_Witness ==
    /\ HeadPhaseLeft
    /\ sepIndex >= 0
    /\ result.kind = "response"
    /\ delivered # <<>>
    /\ body.state = "errored"
    /\ source.lock = "none"

=============================================================================
